---- MODULE Spec2Model ----
(***************************************************************************)
(* Model of the content checker actor (src/src/main.ts): the crawl of the  *)
(* configured URLs by the PlaywrightCrawler request handler, followed by   *)
(* the result processing loop that stores the current data, compares it    *)
(* with the stored previous data and reports changes.                      *)
(***************************************************************************)
EXTENDS Integers, Sequences, FiniteSets, TLC

(* ---------------------------------------------------------------- bounds *)
\* largest value of the maxRetries input that is explored
MaxRetriesCfg == 1
\* largest element screenshot, in bytes
MaxShotBytes == 4
\* the attachment budget is AttachmentQuads base64 quadruples
AttachmentQuads == 3
\* number of successive runs of the actor on the same named store
MaxRuns == 2
\* longest URL, in bytes, whose key is derived in the specification of the keys
MaxUrlLen == 3

(* ---------------------------------------------------------------- values *)
\* JavaScript null (store.getValue of a missing key) and undefined
Null == [t |-> "null"]
Undefined == [t |-> "undefined"]
\* a Buffer, known by its byte length
Buf(n) == [t |-> "buffer", len |-> n]
\* a string
Str(s) == [t |-> "string", s |-> s]

\* element screenshots the page can produce
Shots == {Buf(1)}
\* full page screenshots the page can produce
FullShots == {Buf(MaxShotBytes)}
\* text contents the content selector can yield
Contents == {Str(""), Str("a"), Str("b")}
\* HTTP statuses of a response
Statuses == {200, 400, 404, 503}
RetryStrategies == {"on-block", "on-all-errors", "never-retry"}

\* MAX_ATTACHMENT_SIZE_BYTES, scaled down to a few base64 quadruples
MAX_ATTACHMENT_SIZE_BYTES == 4 * AttachmentQuads

(* ------------------------------------------------------------ key of URL *)
\* the configured URLs, as sequences of bytes: "a" and "b"
Urls == {<<97>>, <<98>>}

\* input.urls of the runs: the configured URLs in their order
ConfiguredUrls == << <<97>>, <<98>> >>

\* the four base64 digits (0..63, 64 for the padding '=') of a group of up to 3 bytes
Base64Group(g) ==
  LET b1 == g[1]
      b2 == IF Len(g) >= 2 THEN g[2] ELSE 0
      b3 == IF Len(g) >= 3 THEN g[3] ELSE 0
  IN << b1 \div 4,
        (b1 % 4) * 16 + (b2 \div 16),
        IF Len(g) >= 2 THEN (b2 % 16) * 4 + (b3 \div 64) ELSE 64,
        IF Len(g) >= 3 THEN b3 % 64 ELSE 64 >>

RECURSIVE Base64(_)
\* Buffer.from(url).toString('base64') as a sequence of digits
Base64(bytes) ==
  IF Len(bytes) = 0 THEN << >>
  ELSE IF Len(bytes) <= 3 THEN Base64Group(bytes)
  ELSE Base64Group(SubSeq(bytes, 1, 3)) \o Base64(SubSeq(bytes, 4, Len(bytes)))

\* .replace(/[^a-zA-Z0-9]/g, ''): digits 62 '+', 63 '/' and 64 '=' are dropped
StripNonAlnum(digits) == SelectSeq(digits, LAMBDA d : d < 62)

\* userData.urlKey of a configured URL
urlKey(url) == StripNonAlnum(Base64(url))

\* length of buffer.toString('base64')
Base64Length(buf) == 4 * ((buf.len + 2) \div 3)

(* ------------------------------------------------------------- the store *)
StoreKinds == {"currentScreenshot", "currentData", "previousScreenshot", "previousData"}
\* the keys `${kind}_${urlKey}` of the named key-value store
StoreKeys == {<<kind, urlKey(u)>> : kind \in StoreKinds, u \in Urls}

VARIABLES
  urls,                \* input.urls, each URL a sequence of bytes
  urlKeys,             \* userData.urlKey of each queued request, << >> before line 76
  retryStrategy,       \* input.retryStrategy
  maxRetries,          \* input.maxRetries
  sendNotificationTo,  \* input.sendNotificationTo ("" when not given)
  store,               \* the named key-value store: key -> value or Null
  urlResults,          \* the Map urlResults, in insertion order
  reqState,            \* request queue: "pending", "handled" or "failed" per URL
  retryCount,          \* request.retryCount per URL
  pc,                  \* position of the main script
  idx,                 \* position of the result processing loop in urlResults
  previousScreenshot,  \* local of the loop body
  previousData,        \* local of the loop body
  dataset,             \* records pushed with Actor.pushData in this run
  mails,               \* calls of apify/send-mail in this run
  slackMessages,       \* SLACK_MESSAGE_ keys set in this run
  failedCalls,         \* calls of handleFailedAndThrow in this run
  run,                 \* number of the current run
  \* history of the run, read by no action
  attempts,            \* number of request handler invocations per URL in this run
  lastOutcome,         \* the kind of the latest visit of each URL
  loaded,              \* what lines 218-219 read for each URL, NotLoaded before
  diff,                \* which branch of lines 225-248 each URL took, "none" before
  storeAtStart,        \* the store as the run found it
  earlier              \* lastOutcome, content and diff per URL of the runs before

vars == << urls, urlKeys, retryStrategy, maxRetries, sendNotificationTo, store, urlResults, reqState,
           retryCount, pc, idx, previousScreenshot, previousData, dataset, mails,
           slackMessages, failedCalls, run, attempts, lastOutcome, loaded, diff,
           storeAtStart, earlier >>

config == << urls, urlKeys, retryStrategy, maxRetries, sendNotificationTo >>
outputs == << dataset, mails, slackMessages, failedCalls >>
locals == << previousScreenshot, previousData >>
crawl == << reqState, retryCount, attempts, lastOutcome >>
runs == << run, storeAtStart, earlier >>
classified == << loaded, diff >>

\* nothing read for the URL yet
NotLoaded == [t |-> "notloaded"]


(* ------------------------------------------------------------------ Init *)
\* previous screenshots the store can hold
StoredShots == {Buf(1), Buf(MaxShotBytes)}

\* what the named store can hold for one URL before the run: <<screenshot, data>>
InitialPrevious ==
  {<<Null, Null>>, <<Buf(1), Str("a")>>, <<Buf(MaxShotBytes), Null>>, <<Null, Str("a")>>}

\* the store in which each URL has the previous data prev[u] and no current data
StoreOf(prev) ==
  [key \in StoreKeys |->
     LET u == CHOOSE x \in Urls : urlKey(x) = key[2] IN
     IF key[1] = "previousScreenshot" THEN prev[u][1]
     ELSE IF key[1] = "previousData" THEN prev[u][2]
     ELSE Null]

\* the stores the run can find: no current data, any previous data
InitialStores == {StoreOf(prev) : prev \in [Urls -> InitialPrevious]}

\* the state of a fresh process: empty urlResults, every URL queued (lines 53-92)
FreshRun ==
  /\ urlResults = << >>
  /\ reqState = [u \in Urls |-> "pending"]
  /\ retryCount = [u \in Urls |-> 0]
  /\ attempts = [u \in Urls |-> 0]
  /\ lastOutcome = [u \in Urls |-> "none"]
  /\ pc = "crawl"
  /\ idx = 1
  /\ previousScreenshot = Null
  /\ previousData = Null
  /\ dataset = << >>
  /\ mails = << >>
  /\ slackMessages = {}
  /\ failedCalls = << >>
  /\ loaded = [u \in Urls |-> NotLoaded]
  /\ diff = [u \in Urls |-> "none"]

Init ==
  /\ urls = ConfiguredUrls
  /\ urlKeys = [i \in 1..Len(ConfiguredUrls) |-> urlKey(ConfiguredUrls[i])]
  /\ retryStrategy \in RetryStrategies
  /\ maxRetries \in 0..MaxRetriesCfg
  /\ sendNotificationTo \in {"", "ops@example.com"}
  /\ store \in InitialStores
  /\ storeAtStart = store
  /\ earlier = << >>
  /\ run = 1
  /\ FreshRun

(* ------------------------------------------------------- request handler *)
\* what one page visit yields: the response status, whether testForBlocks raises
\* (blocked) and whether it does so without having found a block (testError), the
\* text of the content selector, the element screenshot and the full page
\* screenshot (Undefined when the call raises)
Visits ==
  \* the response is an error: the page is not looked at
  [status : {s \in Statuses : s >= 400}, blocked : {FALSE}, testError : {FALSE},
   content : {Undefined}, screenshotBuffer : {Undefined},
   fullPageScreenshot : {Undefined}]
  \cup
  \* testForBlocks finds a block, or the content selector fails: the fallback
  \* screenshot is taken
  [status : {s \in Statuses : s < 400}, blocked : BOOLEAN, testError : {FALSE},
   content : {Undefined}, screenshotBuffer : {Undefined},
   fullPageScreenshot : {Undefined} \cup FullShots]
  \cup
  \* testForBlocks raises for another reason on a page whose content and element
  \* screenshot can be taken: the fallback screenshot is taken
  [status : {s \in Statuses : s < 400}, blocked : {TRUE}, testError : {TRUE},
   content : {Str("a")}, screenshotBuffer : Shots,
   fullPageScreenshot : {Undefined} \cup FullShots]
  \cup
  \* the element screenshot fails: the fallback screenshot is taken
  [status : {s \in Statuses : s < 400}, blocked : {FALSE}, testError : {FALSE},
   content : {Str("a")}, screenshotBuffer : {Undefined},
   fullPageScreenshot : {Undefined} \cup FullShots]
  \cup
  \* content and element screenshot are both taken
  [status : {s \in Statuses : s < 400}, blocked : {FALSE}, testError : {FALSE},
   content : Contents, screenshotBuffer : Shots, fullPageScreenshot : {Undefined}]

\* entries of urlResults
FailureEntry(u, full) ==
  [screenshotBuffer |-> Undefined, fullPageScreenshot |-> full, content |-> Undefined,
   urlConfig |-> u]
SuccessEntry(u, shot, content) ==
  [screenshotBuffer |-> shot, fullPageScreenshot |-> Undefined, content |-> content,
   urlConfig |-> u]

\* no urlResults.set in this attempt
NoEntry == [t |-> "noentry"]

\* the kind of a visit, in the order of the checks a visit goes through
Outcome(v) ==
  IF v.status = 404 THEN "SoftNotFound"
  ELSE IF v.status >= 400 THEN "ServerError"
  ELSE IF (v.blocked \/ v.content = Undefined \/ v.screenshotBuffer = Undefined)
          /\ v.fullPageScreenshot = Undefined THEN "CaptureFailure"
  ELSE IF v.blocked THEN "Blocked"
  ELSE IF v.content = Undefined \/ v.screenshotBuffer = Undefined THEN "SelectorFailure"
  ELSE "Success"

\* the 404 test left out
IsNotFound_Never(status) == FALSE

\* the test of line 111
IsNotFound(status) == status = 404 /\ status # 0

\* the test of line 115
IsErrorStatus(status) == status >= 400

\* every strategy that retries at all retries a selector failure
RetriesSelectorFailure_UnlessNever == retryStrategy # "never-retry"

\* the test of line 167
RetriesSelectorFailure == retryStrategy = "on-all-errors"

\* the request handler on one visit (lines 107-177): whether it raises, and the
\* entry it sets in urlResults (NoEntry when none)
requestHandler(u, v) ==
  IF IsNotFound(v.status)
    THEN [threw |-> FALSE, entry |-> NoEntry]
  ELSE IF IsErrorStatus(v.status)
    THEN [threw |-> TRUE, entry |-> NoEntry]
  ELSE IF v.blocked
    THEN IF v.fullPageScreenshot = Undefined
           THEN [threw |-> TRUE, entry |-> NoEntry]
           ELSE [threw |-> TRUE, entry |-> FailureEntry(u, v.fullPageScreenshot)]
  ELSE IF v.content = Undefined \/ v.screenshotBuffer = Undefined
    THEN IF v.fullPageScreenshot = Undefined
           THEN [threw |-> TRUE, entry |-> NoEntry]
           ELSE [threw |-> RetriesSelectorFailure,
                 entry |-> FailureEntry(u, v.fullPageScreenshot)]
  ELSE [threw |-> FALSE, entry |-> SuccessEntry(u, v.screenshotBuffer, v.content)]

\* never-retry not looked at
maxRequestRetries_AnyStrategy == maxRetries

\* maxRequestRetries of the crawler (line 97)
maxRequestRetries == IF retryStrategy = "never-retry" THEN 0 ELSE maxRetries

\* one retry too many
AfterHandler_OneMore(threw, rc) ==
  IF ~threw THEN "handled"
  ELSE IF rc <= maxRequestRetries THEN "pending"
  ELSE "failed"

\* a request is retried whether its handler raised or not
AfterHandler_RetriesAll(threw, rc) ==
  IF rc < maxRequestRetries THEN "pending"
  ELSE IF threw THEN "failed"
  ELSE "handled"

\* the crawler's decision after a handler invocation of a request with retry count rc
AfterHandler(threw, rc) ==
  IF ~threw THEN "handled"
  ELSE IF rc < maxRequestRetries THEN "pending"
  ELSE "failed"

\* a map that holds the last entry set only
MapSet_Single(m, k, e) == << [key |-> k, value |-> e] >>

\* Map.set: an existing key keeps its place, a new key goes last
MapSet(m, k, e) ==
  IF \E i \in 1..Len(m) : m[i].key = k
    THEN [i \in 1..Len(m) |-> IF m[i].key = k THEN [key |-> k, value |-> e] ELSE m[i]]
    ELSE Append(m, [key |-> k, value |-> e])

\* one visit attempt of a queued URL: the handler runs, the crawler retries or settles
Visit(u, v) ==
  LET r == requestHandler(u, v) IN
  /\ pc = "crawl"
  /\ reqState[u] = "pending"
  /\ urlResults' = IF r.entry = NoEntry THEN urlResults
                   ELSE MapSet(urlResults, urlKey(u), r.entry)
  /\ reqState' = [reqState EXCEPT ![u] = AfterHandler(r.threw, retryCount[u])]
  /\ retryCount' = [retryCount EXCEPT
                      ![u] = IF reqState'[u] = "pending" THEN @ + 1 ELSE @]
  /\ attempts' = [attempts EXCEPT ![u] = @ + 1]
  /\ lastOutcome' = [lastOutcome EXCEPT ![u] = Outcome(v)]
  /\ UNCHANGED << config, store, pc, idx, locals, outputs, runs, classified >>

\* crawler.run() returns once no request is pending (line 180)
CrawlerFinished ==
  /\ pc = "crawl"
  /\ \A u \in Urls : reqState[u] # "pending"
  /\ pc' = "loop"
  /\ idx' = 1
  /\ UNCHANGED << config, store, urlResults, crawl, locals, outputs, runs, classified >>

(* ------------------------------------------------ result processing loop *)
\* the entry the loop is at
Entry == urlResults[idx]

\* store.setValue: a null value deletes the record
SetValue(st, key, value) == [st EXCEPT ![key] = value]

\* store.getPublicUrl
PublicUrl(key) == [publicUrl |-> key]

\* JavaScript !x for the values an entry field can hold
Falsy(x) == x = Undefined \/ x = Null \/ x = Str("")

\* handleFailedAndThrow: reports the failure of one URL with the full page screenshot
handleFailedAndThrow(type, full, url) ==
  [type |-> type, fullPageScreenshot |-> full, url |-> url]

\* `continue`, or the end of the loop body
Continue ==
  /\ pc' = "loop"
  /\ idx' = idx + 1
  /\ previousScreenshot' = Null
  /\ previousData' = Null

AtEntry == pc = "loop" /\ idx <= Len(urlResults)

\* the failure handler's error ends the loop
AfterFailure_Raise ==
  /\ pc' = "done"
  /\ idx' = idx
  /\ previousScreenshot' = Null
  /\ previousData' = Null

\* lines 196 and 207: the loop goes on with the next entry
AfterFailure == Continue

\* lines 188-197: no element screenshot in the entry
FailedScreenshot ==
  /\ AtEntry
  /\ Falsy(Entry.value.screenshotBuffer)
  /\ failedCalls' = Append(failedCalls,
       handleFailedAndThrow("screenshot", Entry.value.fullPageScreenshot,
                            Entry.value.urlConfig))
  /\ AfterFailure
  /\ UNCHANGED << config, store, urlResults, crawl, dataset, mails, slackMessages,
                  runs, classified >>

\* lines 199-208: no content in the entry
FailedContent ==
  /\ AtEntry
  /\ ~Falsy(Entry.value.screenshotBuffer)
  /\ Falsy(Entry.value.content)
  /\ failedCalls' = Append(failedCalls,
       handleFailedAndThrow("screenshot", Entry.value.fullPageScreenshot,
                            Entry.value.urlConfig))
  /\ AfterFailure
  /\ UNCHANGED << config, store, urlResults, crawl, dataset, mails, slackMessages,
                  runs, classified >>

\* line 214
SaveCurrentScreenshot ==
  /\ AtEntry
  /\ ~Falsy(Entry.value.screenshotBuffer)
  /\ ~Falsy(Entry.value.content)
  /\ store' = SetValue(store, <<"currentScreenshot", Entry.key>>,
                       Entry.value.screenshotBuffer)
  /\ pc' = "saveData"
  /\ UNCHANGED << config, urlResults, crawl, idx, locals, outputs, runs, classified >>

\* line 215
SaveCurrentData ==
  /\ pc = "saveData"
  /\ store' = SetValue(store, <<"currentData", Entry.key>>, Entry.value.content)
  /\ pc' = "load"
  /\ UNCHANGED << config, urlResults, crawl, idx, locals, outputs, runs, classified >>

\* lines 218-219
LoadPrevious ==
  /\ pc = "load"
  /\ previousScreenshot' = store[<<"previousScreenshot", Entry.key>>]
  /\ previousData' = store[<<"previousData", Entry.key>>]
  /\ loaded' = [loaded EXCEPT ![Entry.value.urlConfig] =
                  << previousScreenshot', previousData' >>]
  /\ pc' = "classify"
  /\ UNCHANGED << config, store, urlResults, crawl, idx, outputs, runs, diff >>

\* the test of line 225
IsFirstRun(prevShot) == prevShot = Null

\* lines 225-237: first run for the URL
FirstRun ==
  /\ pc = "classify"
  /\ IsFirstRun(previousScreenshot)
  /\ dataset' = Append(dataset,
       [url |-> Entry.value.urlConfig,
        previousData |-> Null,
        content |-> Entry.value.content,
        previousScreenshotUrl |-> Null,
        currentScreenshotUrl |-> PublicUrl(<<"currentScreenshot", Entry.key>>),
        sendNotificationTo |-> sendNotificationTo,
        isFirstRun |-> TRUE])
  /\ diff' = [diff EXCEPT ![Entry.value.urlConfig] = "FirstRun"]
  /\ Continue
  /\ UNCHANGED << config, store, urlResults, crawl, mails, slackMessages, failedCalls,
                  runs, loaded >>

\* the value written at line 240, given what was read and the entry's screenshot
StoredScreenshot(prevShot, shot) == prevShot

\* the value written at line 241, given what was read and the entry's content
StoredData(prevData, content) == prevData

\* line 240
StorePreviousScreenshot ==
  /\ pc = "classify"
  /\ ~IsFirstRun(previousScreenshot)
  /\ store' = SetValue(store, <<"previousScreenshot", Entry.key>>,
                       StoredScreenshot(previousScreenshot, Entry.value.screenshotBuffer))
  /\ pc' = "storeData"
  /\ UNCHANGED << config, urlResults, crawl, idx, locals, outputs, runs, classified >>

\* line 241
StorePreviousData ==
  /\ pc = "storeData"
  /\ store' = SetValue(store, <<"previousData", Entry.key>>,
                       StoredData(previousData, Entry.value.content))
  /\ pc' = "check"
  /\ UNCHANGED << config, urlResults, crawl, idx, locals, outputs, runs, classified >>

\* nothing ever compares equal
SameContent_Never(prevData, content) == FALSE

\* the comparison of line 244
SameContent(prevData, content) == prevData = content

\* lines 244-245
NoChange ==
  /\ pc = "check"
  /\ SameContent(previousData, Entry.value.content)
  /\ diff' = [diff EXCEPT ![Entry.value.urlConfig] = "Unchanged"]
  /\ Continue
  /\ UNCHANGED << config, store, urlResults, crawl, outputs, runs, loaded >>

\* lines 246-267: the Slack message and the output record of a change
ContentChanged ==
  /\ pc = "check"
  /\ ~SameContent(previousData, Entry.value.content)
  /\ slackMessages' = slackMessages \cup {Entry.key}
  /\ dataset' = Append(dataset,
       [url |-> Entry.value.urlConfig,
        previousData |-> previousData,
        content |-> Entry.value.content,
        previousScreenshotUrl |-> PublicUrl(<<"previousScreenshot", Entry.key>>),
        currentScreenshotUrl |-> PublicUrl(<<"currentScreenshot", Entry.key>>),
        sendNotificationTo |-> sendNotificationTo])
  /\ diff' = [diff EXCEPT ![Entry.value.urlConfig] = "Changed"]
  /\ pc' = "notify"
  /\ UNCHANGED << config, store, urlResults, crawl, idx, locals, mails, failedCalls,
                  runs, loaded >>

\* the address not looked at
NotificationWanted_Always == TRUE

\* the test of line 269
NotificationWanted == sendNotificationTo # ""

\* a sum equal to the budget let through
FitsBudget_Inclusive(prevLen, curLen) == prevLen + curLen <= MAX_ATTACHMENT_SIZE_BYTES

\* the test of line 277, on the lengths of the two base64 strings
FitsBudget(prevLen, curLen) == prevLen + curLen < MAX_ATTACHMENT_SIZE_BYTES

\* lines 272-296: the mail of a change
Mail(url, key, prevShot, shot) ==
  LET fits == FitsBudget(Base64Length(prevShot), Base64Length(shot)) IN
  [to |-> sendNotificationTo,
   url |-> url,
   disclosure |-> ~fits,
   attachments |->
     IF fits
       THEN << [filename |-> <<"previousScreenshot", key>>, data |-> prevShot],
               [filename |-> <<"currentScreenshot", key>>, data |-> shot] >>
       ELSE << >>]

\* lines 269-296
SendMail ==
  /\ pc = "notify"
  /\ NotificationWanted
  /\ mails' = Append(mails, Mail(Entry.value.urlConfig, Entry.key, previousScreenshot,
                                 Entry.value.screenshotBuffer))
  /\ Continue
  /\ UNCHANGED << config, store, urlResults, crawl, dataset, slackMessages, failedCalls,
                  runs, classified >>

\* lines 297-299
SkipMail ==
  /\ pc = "notify"
  /\ ~NotificationWanted
  /\ Continue
  /\ UNCHANGED << config, store, urlResults, crawl, outputs, runs, classified >>

\* lines 304-320: the loop is over, the actor exits
Finish ==
  /\ pc = "loop"
  /\ idx > Len(urlResults)
  /\ pc' = "done"
  /\ UNCHANGED << config, store, urlResults, crawl, idx, locals, outputs, runs,
                  classified >>

\* the entry of a URL in urlResults, NoEntry when it has none
EntryOf(u) ==
  IF \E i \in 1..Len(urlResults) : urlResults[i].key = urlKey(u)
    THEN (CHOOSE e \in {urlResults[i] : i \in 1..Len(urlResults)} : e.key = urlKey(u)).value
    ELSE NoEntry

\* what a run leaves to be remembered of each URL
Summary ==
  [u \in Urls |->
     [outcome |-> lastOutcome[u],
      baseline |-> << storeAtStart[<<"previousScreenshot", urlKey(u)>>],
                      storeAtStart[<<"previousData", urlKey(u)>>] >>,
      content |-> IF EntryOf(u) = NoEntry THEN Undefined ELSE EntryOf(u).content,
      diff |-> diff[u]]]

\* the actor is started again on the same named store
NextRun ==
  /\ pc = "done"
  /\ run < MaxRuns
  /\ run' = run + 1
  /\ storeAtStart' = store
  /\ earlier' = Append(earlier, Summary)
  /\ urlResults' = << >>
  /\ reqState' = [u \in Urls |-> "pending"]
  /\ retryCount' = [u \in Urls |-> 0]
  /\ attempts' = [u \in Urls |-> 0]
  /\ lastOutcome' = [u \in Urls |-> "none"]
  /\ pc' = "crawl"
  /\ idx' = 1
  /\ previousScreenshot' = Null
  /\ previousData' = Null
  /\ dataset' = << >>
  /\ mails' = << >>
  /\ slackMessages' = {}
  /\ failedCalls' = << >>
  /\ loaded' = [u \in Urls |-> NotLoaded]
  /\ diff' = [u \in Urls |-> "none"]
  /\ UNCHANGED << config, store >>

\* one run of the actor
Next ==
  \/ \E u \in Urls, v \in Visits : Visit(u, v)
  \/ CrawlerFinished
  \/ FailedScreenshot
  \/ FailedContent
  \/ SaveCurrentScreenshot
  \/ SaveCurrentData
  \/ LoadPrevious
  \/ FirstRun
  \/ StorePreviousScreenshot
  \/ StorePreviousData
  \/ NoChange
  \/ ContentChanged
  \/ SendMail
  \/ SkipMail
  \/ Finish

\* one run on a named store that holds anything
Spec == Init /\ [][Next]_vars

\* the first of the successive runs: no retries configured, and a named store that
\* is new or holds the same complete previous data for every URL
InitRuns ==
  /\ Init
  /\ maxRetries = 0
  /\ store \in {StoreOf([u \in Urls |-> <<Null, Null>>]),
                StoreOf([u \in Urls |-> <<Buf(1), Str("a")>>])}

NextRuns == Next \/ NextRun

\* successive runs on the same named store
SpecRuns == InitRuns /\ [][NextRuns]_vars

\* the run is aborted while the results are processed: the process ends between
\* two awaited calls of the loop and nothing more is done
Abort ==
  /\ pc \notin {"crawl", "done", "aborted"}
  /\ pc' = "aborted"
  /\ UNCHANGED << config, store, urlResults, crawl, idx, locals, outputs, runs,
                  classified >>

\* a run that can be aborted, with no retries configured
InitAbort == Init /\ maxRetries = 0

NextAbort == Next \/ Abort

SpecAbort == InitAbort /\ [][NextAbort]_vars

(* ------------------------------------------------------- keys of the URLs *)
\* the bytes of the URLs whose keys are derived: 'a', 'b' and '?'
UrlBytes == {97, 98, 63}

\* the URLs of up to MaxUrlLen bytes
UrlStrings == UNION {[1..n -> UrlBytes] : n \in 1..MaxUrlLen}

\* a start with any two configured URLs and nothing queued yet
InitKeys ==
  /\ urls \in [1..2 -> UrlStrings]
  /\ urlKeys = << >>
  /\ retryStrategy = "on-block"
  /\ maxRetries = 0
  /\ sendNotificationTo = ""
  /\ store = StoreOf([u \in Urls |-> <<Null, Null>>])
  /\ storeAtStart = store
  /\ earlier = << >>
  /\ run = 1
  /\ FreshRun

\* lines 76-84: every configured URL is queued with its key
AddRequests ==
  /\ urlKeys = << >>
  /\ urlKeys' = [i \in 1..Len(urls) |-> urlKey(urls[i])]
  /\ UNCHANGED << urls, retryStrategy, maxRetries, sendNotificationTo, store,
                  urlResults, crawl, pc, idx, locals, outputs, runs, classified >>

NextKeys == AddRequests

\* the derivation of the keys alone
SpecKeys == InitKeys /\ [][NextKeys]_vars

(* ---------------------------------------------------------------- claims *)
\* the number of retries of a URL already used when its latest attempt began
RetriesUsed(u) == attempts[u] - 1

\* C1: a visit attempt whose status is 404 settles the request as handled, whatever
\* the strategy and the number of attempts so far, and the URL is visited no more
\* in the run
C1_NotFoundIsFinal ==
  [][\A u \in Urls :
       /\ (attempts'[u] = attempts[u] + 1 /\ lastOutcome'[u] = "SoftNotFound")
            => reqState'[u] = "handled"
       /\ (lastOutcome[u] = "SoftNotFound" /\ run' = run)
            => (attempts'[u] = attempts[u] /\ reqState'[u] = "handled")]_vars

\* a 404 met on a retry, after which the run went to its end
C1_Witness ==
  \E u \in Urls :
    /\ lastOutcome[u] = "SoftNotFound"
    /\ attempts[u] >= 2
    /\ pc = "done"

\* C2: after a ServerError or Blocked attempt the URL is queued again exactly when
\* the strategy is on-block or on-all-errors and fewer than maxRetries retries were
\* used; otherwise it has failed for good, and under never-retry after one attempt
C2_ErrorOrBlockRetried ==
  \A u \in Urls :
    lastOutcome[u] \in {"ServerError", "Blocked"} =>
      /\ reqState[u] = "pending"
           <=> (/\ retryStrategy \in {"on-block", "on-all-errors"}
                /\ RetriesUsed(u) < maxRetries)
      /\ reqState[u] # "pending" => reqState[u] = "failed"
      /\ retryStrategy = "never-retry" => (attempts[u] = 1 /\ reqState[u] = "failed")

\* one URL blocked and queued again, the other out of retries on a server error
C2_Witness ==
  \E u, w \in Urls :
    /\ lastOutcome[u] = "Blocked"
    /\ reqState[u] = "pending"
    /\ lastOutcome[w] = "ServerError"
    /\ reqState[w] = "failed"
    /\ attempts[w] = maxRetries + 1
    /\ maxRetries >= 1

\* C3: after a SelectorFailure attempt the URL is queued again exactly under
\* on-all-errors with retries left; under on-block and never-retry the handler
\* returns and the request is settled at once
C3_SelectorFailureRetried ==
  \A u \in Urls :
    lastOutcome[u] = "SelectorFailure" =>
      /\ reqState[u] = "pending"
           <=> (retryStrategy = "on-all-errors" /\ RetriesUsed(u) < maxRetries)
      /\ retryStrategy \in {"on-block", "never-retry"} => reqState[u] = "handled"
      /\ (retryStrategy = "on-all-errors" /\ reqState[u] # "pending")
           => reqState[u] = "failed"

\* a selector failure settled at the first attempt under on-block although
\* retries are configured
C3_Witness ==
  \E u \in Urls :
    /\ lastOutcome[u] = "SelectorFailure"
    /\ retryStrategy = "on-block"
    /\ maxRetries >= 1
    /\ attempts[u] = 1
    /\ reqState[u] = "handled"
    /\ pc = "done"

\* C4: a URL is visited at most maxRetries + 1 times in a run and once under
\* never-retry; a Success attempt settles it, and so does the attempt number
\* maxRetries + 1 whatever its outcome
C4_AttemptsBounded ==
  \A u \in Urls :
    /\ attempts[u] <= maxRetries + 1
    /\ retryStrategy = "never-retry" => attempts[u] <= 1
    /\ lastOutcome[u] = "Success" => reqState[u] = "handled"
    /\ attempts[u] = maxRetries + 1 => reqState[u] # "pending"
    /\ reqState[u] # "pending" => attempts[u] >= 1

\* a URL that failed for good at attempt maxRetries + 1, after retries
C4_Witness ==
  \E u \in Urls :
    /\ maxRetries >= 1
    /\ attempts[u] = maxRetries + 1
    /\ reqState[u] = "failed"
    /\ lastOutcome[u] \in {"ServerError", "Blocked", "SelectorFailure"}

\* the store key of a kind for a URL
KeyOf(kind, u) == <<kind, urlKey(u)>>

\* the baseline the run found for a URL: <<previous screenshot, previous data>>
BaselineAtStart(u) ==
  << storeAtStart[KeyOf("previousScreenshot", u)], storeAtStart[KeyOf("previousData", u)] >>

\* the URL's final visit attempt of the run was a Success
ReachedSuccess(u) == reqState[u] = "handled" /\ lastOutcome[u] = "Success"

\* ... and the text it extracted is not empty
ReachedSuccessWithText(u) == ReachedSuccess(u) /\ EntryOf(u).content # Str("")

\* the output records of the run for a URL
RecordsOf(u) == {i \in 1..Len(dataset) : dataset[i].url = u}

\* the mails of the run for a URL
MailsOf(u) == {i \in 1..Len(mails) : mails[i].url = u}

\* the loop body is over for the URL's entry
Processed(u) ==
  /\ pc \in {"loop", "saveData", "load", "classify", "storeData", "check", "notify", "done"}
  /\ \E i \in 1..Len(urlResults) : urlResults[i].key = urlKey(u) /\ i < idx

\* C5: once the run is over, a URL that reached Success (here with a text that
\* is not empty) is classified FirstRun exactly when the store held no baseline for it, Unchanged exactly when a baseline
\* was held whose content equals the current content, and Changed otherwise
C5_DiffByBaseline ==
  pc = "done" =>
    \A u \in Urls :
      ReachedSuccessWithText(u) =>
        LET stored == BaselineAtStart(u) # <<Null, Null>>
            same == BaselineAtStart(u)[2] = EntryOf(u).content
        IN /\ diff[u] = "FirstRun" <=> ~stored
           /\ diff[u] = "Unchanged" <=> (stored /\ same)
           /\ diff[u] = "Changed" <=> (stored /\ ~same)

\* C6: from a new store, when a URL succeeds with the same content (here not
\* empty) in the first and in the second run, the second run classifies it Unchanged and leaves the stored
\* previous content as it found it
C6_SecondRunUnchanged ==
  (pc = "done" /\ run = 2) =>
    \A u \in Urls :
      (/\ \A w \in Urls : earlier[1][w].baseline = <<Null, Null>>
       /\ earlier[1][u].outcome = "Success"
       /\ ReachedSuccessWithText(u)
       /\ earlier[1][u].content = EntryOf(u).content)
      => /\ diff[u] = "Unchanged"
         /\ store[KeyOf("previousData", u)] = storeAtStart[KeyOf("previousData", u)]

\* C7: once the run is over, the previous data and previous screenshot stored for a
\* URL that reached Success (here with a text that is not empty) are the content and the screenshot of this run
C7_BaselineIsThisRun ==
  pc = "done" =>
    \A u \in Urls :
      ReachedSuccessWithText(u) =>
        /\ store[KeyOf("previousData", u)] = EntryOf(u).content
        /\ store[KeyOf("previousScreenshot", u)] = EntryOf(u).screenshotBuffer

\* the sum line 277 compares with the budget, for the mail of a URL
EncodedSum(u) ==
  Base64Length(loaded[u][1]) + Base64Length(EntryOf(u).screenshotBuffer)

\* C8: every change mail carries both screenshots and no disclosure when the two
\* encoded lengths sum to less than the budget, and no attachment and the
\* disclosure otherwise, the sum equal to the budget included; never one attachment
C8_AttachmentsAllOrNothing ==
  \A i \in 1..Len(mails) :
    LET m == mails[i]
        u == m.url
    IN /\ Len(m.attachments) # 1
       /\ EncodedSum(u) < MAX_ATTACHMENT_SIZE_BYTES =>
            /\ Len(m.attachments) = 2
            /\ m.attachments[1].data = loaded[u][1]
            /\ m.attachments[2].data = EntryOf(u).screenshotBuffer
            /\ ~m.disclosure
       /\ EncodedSum(u) >= MAX_ATTACHMENT_SIZE_BYTES =>
            /\ Len(m.attachments) = 0
            /\ m.disclosure

\* a mail with both screenshots, and a mail without them whose sum is the budget
C8_Witness ==
  \E i, j \in 1..Len(mails) :
    /\ Len(mails[i].attachments) = 2
    /\ Len(mails[j].attachments) = 0
    /\ EncodedSum(mails[j].url) = MAX_ATTACHMENT_SIZE_BYTES

\* C9: for a URL whose entry has been processed, one change mail is sent when the
\* run took the Changed branch and sendNotificationTo is set, and none otherwise;
\* with a previous screenshot stored, equal content sends no mail and different
\* content a mail if sendNotificationTo is set; a Changed run pushes one record
\* with the URLs of the previous and of the current screenshot
C9_MailIffChanged ==
  \A u \in Urls :
    Processed(u) =>
      /\ Cardinality(MailsOf(u)) =
           IF diff[u] = "Changed" /\ sendNotificationTo # "" THEN 1 ELSE 0
      /\ diff[u] \in {"FirstRun", "Unchanged"} => MailsOf(u) = {}
      /\ (loaded[u] # NotLoaded /\ loaded[u][1] # Null) =>
           IF loaded[u][2] = EntryOf(u).content
             THEN diff[u] = "Unchanged" /\ MailsOf(u) = {} /\ RecordsOf(u) = {}
             ELSE /\ diff[u] = "Changed"
                  /\ sendNotificationTo # "" => MailsOf(u) # {}
      /\ diff[u] = "Changed" =>
           /\ Cardinality(RecordsOf(u)) = 1
           /\ \A i \in RecordsOf(u) :
                /\ dataset[i].previousScreenshotUrl = PublicUrl(KeyOf("previousScreenshot", u))
                /\ dataset[i].currentScreenshotUrl = PublicUrl(KeyOf("currentScreenshot", u))

\* a run that is over with one URL changed and mailed and the other unchanged
C9_Witness ==
  \E u, w \in Urls :
    /\ pc = "done"
    /\ diff[u] = "Changed"
    /\ MailsOf(u) # {}
    /\ diff[w] = "Unchanged"
    /\ MailsOf(w) = {}

\* C10: once the run is over, a URL that reached Success with no baseline in the
\* store has exactly one output record, with isFirstRun and a null previousData,
\* and its content and screenshot are stored under its current data keys
C10_FirstRunRecord ==
  pc = "done" =>
    \A u \in Urls :
      (ReachedSuccess(u) /\ BaselineAtStart(u) = <<Null, Null>>) =>
        /\ Cardinality(RecordsOf(u)) = 1
        /\ \A i \in RecordsOf(u) :
             /\ "isFirstRun" \in DOMAIN dataset[i]
             /\ dataset[i].isFirstRun
             /\ dataset[i].previousData = Null
        /\ store[KeyOf("currentData", u)] = EntryOf(u).content
        /\ store[KeyOf("currentScreenshot", u)] = EntryOf(u).screenshotBuffer

\* the run's failure handler calls for a URL
FailedCallsOf(u) == {i \in 1..Len(failedCalls) : failedCalls[i].url = u}

\* the store keys of a URL hold what the run found
StoreUntouched(u) ==
  \A kind \in StoreKinds : store[KeyOf(kind, u)] = storeAtStart[KeyOf(kind, u)]

C12_ExhaustedIsFailure ==
  pc = "done" =>
    \A u \in Urls :
      (reqState[u] = "failed" /\ lastOutcome[u] \in {"ServerError", "Blocked", "SelectorFailure"}) =>
        /\ \E i \in FailedCallsOf(u) : failedCalls[i].fullPageScreenshot \in FullShots
        /\ store[KeyOf("currentData", u)] = storeAtStart[KeyOf("currentData", u)]

\* C13: once the run is over, a URL whose final attempt returned 404 has had no
\* failure handler call, no store key written and no record or mail
C13_NotFoundIsSkipped ==
  pc = "done" =>
    \A u \in Urls :
      lastOutcome[u] = "SoftNotFound" =>
        /\ FailedCallsOf(u) = {}
        /\ StoreUntouched(u)
        /\ RecordsOf(u) = {}
        /\ MailsOf(u) = {}

\* C16: once the run is over, a URL whose final attempt was a Success, whatever
\* its text, has had its content stored and compared and no failure handler call
C16_SuccessIsStoredAndDiffed ==
  pc = "done" =>
    \A u \in Urls :
      ReachedSuccess(u) =>
        /\ FailedCallsOf(u) = {}
        /\ store[KeyOf("currentData", u)] = EntryOf(u).content
        /\ store[KeyOf("currentScreenshot", u)] = EntryOf(u).screenshotBuffer
        /\ diff[u] \in {"FirstRun", "Unchanged", "Changed"}

\* the two shapes of an entry of urlResults
IsSuccessEntry(e) ==
  /\ e # NoEntry
  /\ e.screenshotBuffer # Undefined
  /\ e.content # Undefined
  /\ e.fullPageScreenshot = Undefined
IsFailureEntry(e) ==
  /\ e # NoEntry
  /\ e.screenshotBuffer = Undefined
  /\ e.content = Undefined
  /\ e.fullPageScreenshot # Undefined

\* C20: after every step every entry of urlResults is wholly a success entry or
\* wholly a failure entry; a success entry is never replaced in the run; and an
\* entry is set or changes only in a step that is a visit attempt of its URL
C20_EntriesWhole ==
  [][urlResults' = urlResults \/
     \A i \in 1..Len(urlResults') :
       LET new == urlResults'[i].value IN
       /\ IsSuccessEntry(new) \/ IsFailureEntry(new)
       /\ i <= Len(urlResults) =>
            /\ urlResults'[i].key = urlResults[i].key
            /\ IsSuccessEntry(urlResults[i].value) => new = urlResults[i].value
            /\ new # urlResults[i].value =>
                 attempts'[new.urlConfig] = attempts[new.urlConfig] + 1
       /\ i > Len(urlResults) =>
            attempts'[new.urlConfig] = attempts[new.urlConfig] + 1]_vars

\* a URL whose second attempt recorded a success entry, next to a URL whose
\* second attempt left a failure entry
C20_Witness ==
  \E u, w \in Urls :
    /\ attempts[u] = 2
    /\ IsSuccessEntry(EntryOf(u))
    /\ attempts[w] = 2
    /\ IsFailureEntry(EntryOf(w))

\* the step is one of the URL's workflow: a visit attempt of it, or a step of
\* the loop body on its entry
StepOf(u) ==
  \/ attempts'[u] # attempts[u]
  \/ /\ pc \notin {"crawl", "done"}
     /\ idx <= Len(urlResults)
     /\ Entry.value.urlConfig = u

\* the key of each configured URL
KeyOfUrl == [u \in Urls |-> urlKey(u)]

\* the pairs of configured URLs whose keys are distinct
DistinctKeys == {p \in Urls \X Urls : p[1] # p[2] /\ KeyOfUrl[p[1]] # KeyOfUrl[p[2]]}

\* the step leaves the entry of key k as it is: where it was, or absent
EntryUntouched(k) ==
  /\ \A i \in 1..Len(urlResults) :
       urlResults[i].key = k => (i <= Len(urlResults') /\ urlResults'[i] = urlResults[i])
  /\ \A i \in 1..Len(urlResults') :
       urlResults'[i].key = k => i <= Len(urlResults)

\* the step leaves everything of the URL as it is
Untouched(u) ==
  LET k == KeyOfUrl[u] IN
  /\ urlResults' = urlResults \/ EntryUntouched(k)
  /\ store' = store \/ \A kind \in StoreKinds : store'[<<kind, k>>] = store[<<kind, k>>]
  /\ reqState'[u] = reqState[u]
  /\ retryCount'[u] = retryCount[u]
  /\ lastOutcome'[u] = lastOutcome[u]
  /\ loaded'[u] = loaded[u]
  /\ diff'[u] = diff[u]
  /\ dataset' = dataset \/ RecordsOf(u)' = RecordsOf(u)
  /\ mails' = mails \/ MailsOf(u)' = MailsOf(u)
  /\ failedCalls' = failedCalls \/ FailedCallsOf(u)' = FailedCallsOf(u)
  /\ (k \in slackMessages') = (k \in slackMessages)

EndedAsFailure(u) == reqState[u] = "failed" \/ IsFailureEntry(EntryOf(u))

C15_BlockTestFailureIgnored ==
  [][\A u \in Urls, v \in Visits :
       (v.testError /\ Visit(u, v)) =>
         (reqState'[u] = "handled" /\ IsSuccessEntry(EntryOf(u)'))]_vars

\* the run has written the store key of the URL (the run finds no current data)
Written(kind, u) == store[KeyOf(kind, u)] # storeAtStart[KeyOf(kind, u)]

\* C14: when the run is aborted while the results are processed, the current
\* screenshot and the current content of every URL are both written by the run
\* or both as the run found them, and a URL with an output record has both written
C14_AbortLeavesPairsWhole ==
  pc = "aborted" =>
    \A u \in Urls :
      /\ Written("currentScreenshot", u) = Written("currentData", u)
      /\ RecordsOf(u) # {} =>
           (Written("currentScreenshot", u) /\ Written("currentData", u))

\* C18: the keys derived for the configured URLs are the function urlKey of
\* the URLs, and two URLs have the same key only when they are the same URL
C18_KeyInjective ==
  urlKeys # << >> =>
    \A i, j \in 1..Len(urls) :
      /\ urlKeys[i] = urlKey(urls[i])
      /\ urlKeys[i] = urlKeys[j] => urls[i] = urls[j]

====
